---- MODULE Spec2Model ----
(***************************************************************************)
(* A model of client.py, the MBTA REST client: the Stop-Route Index        *)
(* (stops_to_routes), the network statistics (print_stats), the route      *)
(* adjacency graph and the path search (find_path) and the command line    *)
(* driver (main).                                                          *)
(*                                                                         *)
(* Routes are numbered in the order in which GET /routes lists them, so    *)
(* route_ids.keys() is the sequence <<1, ..., n>>.  The stops of a route   *)
(* (the dict get_stops returns, stop id -> stop) are the sequence of the   *)
(* stops' names in the dict's order: two positions of one sequence are two *)
(* stop ids, and they may carry the same name.  A Python dict is a         *)
(* sequence of entries [key, val] in insertion order.  The GET calls are   *)
(* taken to answer with status 200.                                        *)
(***************************************************************************)
EXTENDS Integers, Sequences, FiniteSets, TLC

\* Bounds of the model: the routes GET /routes returns, the distinct stop
\* names, and the stops of all the routes together.
MaxRoutes == 3
NumNames == 2
MaxStops == 4

Names == 1..NumNames
Routes == 1..MaxRoutes

\* Python's None (route ids are >= 1, stop names are >= 1).
None == 0
\* float("inf"), line 127: larger than every stop count of the model.
Inf == MaxStops + 1

VARIABLES
  route_ids,   \* route_ids.keys() in order
  all_stops,   \* route -> sequence of stop names (get_stops per route)
  args,        \* the parsed command line: id, stats, path
  pc,          \* position in main / find_path
  stops_map,   \* the Stop-Route Index, a dict name -> list of routes
  graph,       \* route -> set of adjacent routes (lines 189-195)
  glist,       \* route -> list(graph[route]) (line 198), <<>> until read
  start,       \* search origin (line 214)
  end,         \* search target (line 215)
  visited,     \* line 217
  queue,       \* line 218: sequence of <<vertex, path>>
  result,      \* what find_path returned or raised
  printed,     \* the lines written to standard output, in order
  most,        \* <<route, count>> (line 126)
  least,       \* <<route, count>> (line 127)
  expanded     \* route -> times it was popped and its neighbours looped over (224)

vars == <<route_ids, all_stops, args, pc, stops_map, graph, glist, start, end,
          visited, queue, result, printed, most, least, expanded>>

----------------------------------------------------------------------------
\* Python dicts as sequences of entries.

Keys(d) == {d[i].key : i \in DOMAIN d}

HasKey(d, k) == \E i \in DOMAIN d : d[i].key = k

Get(d, k) == d[CHOOSE i \in DOMAIN d : d[i].key = k].val

Range(s) == {s[i] : i \in DOMAIN s}

\* The orders in which a set can be listed: list(set), line 198.
Perms(S) == {f \in [1..Cardinality(S) -> S] : \A x \in S : \E i \in DOMAIN f : f[i] = x}

----------------------------------------------------------------------------
\* stops_to_routes, lines 148-167.

\* Lines 163-166 with the list overwritten instead of extended.
AddStopOverwrite(d, name, r) ==
  IF ~HasKey(d, name)
    THEN Append(d, [key |-> name, val |-> <<r>>])
    ELSE [i \in DOMAIN d |->
            IF d[i].key = name THEN [key |-> name, val |-> <<r>>] ELSE d[i]]

\* Lines 163-166: the first stop of a name creates the entry, later ones append.
AddStop(d, name, r) ==
  IF ~HasKey(d, name)
    THEN Append(d, [key |-> name, val |-> <<r>>])
    ELSE [i \in DOMAIN d |->
            IF d[i].key = name
              THEN [key |-> name, val |-> Append(d[i].val, r)]
              ELSE d[i]]

\* Line 161: the loop over the stops of route r, from position i.
RECURSIVE AddRouteStops(_, _, _, _)
AddRouteStops(d, r, stops, i) ==
  IF i > Len(stops) THEN d
  ELSE AddRouteStops(AddStop(d, stops[i], r), r, stops, i + 1)

\* Line 160: the loop over the routes, from position i.
RECURSIVE StopsToRoutesFrom(_, _, _, _)
StopsToRoutesFrom(d, rids, stops, i) ==
  IF i > Len(rids) THEN d
  ELSE StopsToRoutesFrom(AddRouteStops(d, rids[i], stops[rids[i]], 1), rids, stops, i + 1)

stops_to_routes(rids, stops) == StopsToRoutesFrom(<<>>, rids, stops, 1)

----------------------------------------------------------------------------
\* print_stats, lines 113-145.

\* Line 131 with >= for >: the last route of a tie wins.
MostStepLast(m, r, n) == IF n >= m[2] THEN <<r, n>> ELSE m

\* Lines 131-132.
MostStep(m, r, n) == IF n > m[2] THEN <<r, n>> ELSE m

\* Lines 133-134.
LeastStep(l, r, n) == IF n < l[2] THEN <<r, n>> ELSE l

\* Lines 126-134: the loop over the routes, from position i.
RECURSIVE MostLeastFrom(_, _, _, _)
MostLeastFrom(ml, rids, stops, i) ==
  IF i > Len(rids) THEN ml
  ELSE LET r == rids[i]
           n == Len(stops[r])
       IN  MostLeastFrom([most |-> MostStep(ml.most, r, n),
                          least |-> LeastStep(ml.least, r, n)], rids, stops, i + 1)

MostLeast(rids, stops) ==
  MostLeastFrom([most |-> <<None, -1>>, least |-> <<None, Inf>>], rids, stops, 1)

\* Lines 142-145: one "connects" line per entry with more than one route.
RECURSIVE ConnectsFrom(_, _)
ConnectsFrom(d, i) ==
  IF i > Len(d) THEN <<>>
  ELSE (IF Len(d[i].val) > 1 THEN <<<<"connects", d[i].key, d[i].val>>>> ELSE <<>>)
       \o ConnectsFrom(d, i + 1)

\* Everything print_stats writes, lines 135-145.
StatsOutput(rids, stops) ==
  LET ml == MostLeast(rids, stops)
  IN  <<<<"most", ml.most[1], ml.most[2]>>, <<"least", ml.least[1], ml.least[2]>>,
        <<"banner">>>>
      \o ConnectsFrom(stops_to_routes(rids, stops), 1)

----------------------------------------------------------------------------
\* The inputs: what the API returns and what the command line says.

\* The networks of n routes with at most t stops in all: one sequence of stop
\* names per route.
RECURSIVE NetworksOf(_, _)
NetworksOf(n, t) ==
  IF n = 0 THEN {<<>>}
  ELSE UNION {{Append(net, sl) : net \in NetworksOf(n - 1, t - k), sl \in [1..k -> Names]}
                : k \in 0..t}

Networks == UNION {NetworksOf(n, MaxStops) : n \in 0..MaxRoutes}

NoResult == [kind |-> "pending", value |-> <<>>, arg |-> None]

InitNetwork ==
  /\ all_stops \in Networks
  /\ route_ids = [i \in DOMAIN all_stops |-> i]
  /\ stops_map = <<>>
  /\ graph = <<>>
  /\ glist = <<>>
  /\ start = None
  /\ end = None
  /\ visited = {}
  /\ queue = <<>>
  /\ result = NoResult
  /\ printed = <<>>
  /\ most = <<None, -1>>
  /\ least = <<None, Inf>>
  /\ expanded = [r \in Routes |-> 0]

----------------------------------------------------------------------------
\* print_stats(route_ids), lines 113-145, as a whole.

StatsEffect ==
  /\ LET ml == MostLeast(route_ids, all_stops)
     IN  /\ most' = ml.most
         /\ least' = ml.least
  /\ stops_map' = stops_to_routes(route_ids, all_stops)
  /\ printed' = printed \o StatsOutput(route_ids, all_stops)

PrintStats ==
  /\ pc = "print_stats"
  /\ StatsEffect
  /\ pc' = "print_stats_ret"
  /\ UNCHANGED <<route_ids, all_stops, args, graph, glist, start, end, visited,
                 queue, result, expanded>>

InitStats ==
  /\ InitNetwork
  /\ args = [id |-> None, stats |-> TRUE, path |-> <<>>]
  /\ pc = "print_stats"

NextStats == PrintStats

SpecStats == InitStats /\ [][NextStats]_vars

----------------------------------------------------------------------------
\* find_path, lines 170-231.

\* Line 195 with only the routes listed after r: the edge is recorded one way.
LaterRoutes(routes, r) ==
  {routes[j] : j \in {k \in DOMAIN routes : \E i \in DOMAIN routes : routes[i] = r /\ i <= k}}

GraphAddRouteOneWay(g, r, routes) ==
  IF r \notin DOMAIN g
    THEN (r :> LaterRoutes(routes, r)) @@ g
    ELSE [g EXCEPT ![r] = @ \cup LaterRoutes(routes, r)]

\* Lines 193-195: graph[r] = graph[r].union(set(routes)).
GraphAddRoute(g, r, routes) ==
  IF r \notin DOMAIN g
    THEN (r :> Range(routes)) @@ g
    ELSE [g EXCEPT ![r] = @ \cup Range(routes)]

\* Line 192: the loop over one stop's routes, from position i.
RECURSIVE GraphAddList(_, _, _)
GraphAddList(g, routes, i) ==
  IF i > Len(routes) THEN g
  ELSE GraphAddList(GraphAddRoute(g, routes[i], routes), routes, i + 1)

\* Line 190: the loop over the stops of the index, from position i.
RECURSIVE GraphFrom(_, _, _)
GraphFrom(g, d, i) ==
  IF i > Len(d) THEN g
  ELSE GraphFrom(GraphAddList(g, d[i].val, 1), d, i + 1)

\* Lines 189-195: the Route Adjacency Graph of a Stop-Route Index.
BuildGraph(d) == GraphFrom(<<>>, d, 1)

\* Line 231: print("Route not found from {} to {}", stop1, stop2), then the
\* function ends and returns None.
Exhausted(stop1, stop2) ==
  [result |-> [kind |-> "none", value |-> <<>>, arg |-> None],
   out |-> <<<<"Route not found from {} to {}", stop1, stop2>>>>]

\* Lines 224-230 without the test of line 228: every neighbour is queued.
RECURSIVE ForNeighborsNoVisited(_, _, _, _, _, _)
ForNeighborsNoVisited(nbrs, i, path, target, vis, q) ==
  IF i > Len(nbrs)
    THEN [found |-> FALSE, ret |-> <<>>, visited |-> vis, queue |-> q]
  ELSE IF nbrs[i] = target
    THEN [found |-> TRUE, ret |-> path \o <<target>>, visited |-> vis, queue |-> q]
  ELSE ForNeighborsNoVisited(nbrs, i + 1, path, target, vis \cup {nbrs[i]},
                             Append(q, <<nbrs[i], path \o <<nbrs[i]>>>>))

\* Lines 224-230: the loop over the neighbours of a vertex, from position i.
RECURSIVE ForNeighbors(_, _, _, _, _, _)
ForNeighbors(nbrs, i, path, target, vis, q) ==
  IF i > Len(nbrs)
    THEN [found |-> FALSE, ret |-> <<>>, visited |-> vis, queue |-> q]
  ELSE IF nbrs[i] = target
    THEN [found |-> TRUE, ret |-> path \o <<target>>, visited |-> vis, queue |-> q]
  ELSE IF nbrs[i] \notin vis
    THEN ForNeighbors(nbrs, i + 1, path, target, vis \cup {nbrs[i]},
                      Append(q, <<nbrs[i], path \o <<nbrs[i]>>>>))
  ELSE ForNeighbors(nbrs, i + 1, path, target, vis, q)

\* Lines 182-198: fetch the stops, build the index and the graph.  The order of
\* each list(graph[v]) of line 198 is not determined by the program: it is
\* fixed here the first time the search reads the list, and kept from then on.
FP_Build ==
  /\ pc = "fp_build"
  /\ stops_map' = stops_to_routes(route_ids, all_stops)
  /\ graph' = BuildGraph(stops_map')
  /\ glist' = [r \in DOMAIN graph' |-> <<>>]
  /\ pc' = "fp_lookup"
  /\ UNCHANGED <<route_ids, all_stops, args, start, end, visited, queue, result,
                 printed, most, least, expanded>>

\* Lines 201-218: resolve the two stops and seed the search.
FP_Lookup ==
  /\ pc = "fp_lookup"
  /\ LET stop1 == args.path[1]
         stop2 == args.path[2]
     IN
     IF ~HasKey(stops_map, stop1) \/ ~HasKey(stops_map, stop2)
       THEN \* stops_map[stop] raises KeyError(stop), lines 201-202
            /\ result' = [kind |-> "raise", value |-> <<>>,
                          arg |-> IF ~HasKey(stops_map, stop1) THEN stop1 ELSE stop2]
            /\ pc' = "raised"
            /\ UNCHANGED <<start, end, visited, queue, glist, printed>>
     ELSE LET s == Get(stops_map, stop1)
              e == Get(stops_map, stop2)
          IN
          IF s = e
            THEN \* lines 204-205
                 /\ result' = [kind |-> "return", value |-> s, arg |-> None]
                 /\ pc' = "fp_ret"
                 /\ UNCHANGED <<start, end, visited, queue, glist, printed>>
          ELSE IF s = <<>> \/ e = <<>>
            THEN \* lines 207-212
                 /\ printed' = printed
                       \o (IF s = <<>> THEN <<<<"Unknown start location", s>>>> ELSE <<>>)
                       \o (IF e = <<>> THEN <<<<"Unknown end location", e>>>> ELSE <<>>)
                 /\ result' = [kind |-> "none", value |-> <<>>, arg |-> None]
                 /\ pc' = "fp_ret"
                 /\ UNCHANGED <<start, end, visited, queue, glist>>
          ELSE \* lines 214-218
               /\ start' = s[1]
               /\ end' = e[1]
               /\ visited' = {}
               /\ \E ord \in Perms(graph[s[1]]) :
                    /\ glist' = [glist EXCEPT ![s[1]] = ord]
                    /\ queue' = <<<<ord[1], <<s[1]>>>>>>
               /\ pc' = "fp_loop"
               /\ UNCHANGED <<result, printed>>
  /\ UNCHANGED <<route_ids, all_stops, args, stops_map, graph, most, least, expanded>>

\* Lines 220-230: one iteration of the while loop.
FP_Step ==
  /\ pc = "fp_loop"
  /\ queue # <<>>
  /\ LET top == queue[Len(queue)]          \* queue.pop() takes the last element
         vertex == top[1]
         path == top[2]
         rest == SubSeq(queue, 1, Len(queue) - 1)
     IN
     IF vertex = end
       THEN \* lines 222-223
            /\ result' = [kind |-> "return", value |-> path \o <<end>>, arg |-> None]
            /\ pc' = "fp_ret"
            /\ UNCHANGED <<visited, glist, expanded>>
            /\ queue' = rest
       ELSE \E ord \in (IF glist[vertex] = <<>> THEN Perms(graph[vertex])
                        ELSE {glist[vertex]}) :
              LET f == ForNeighbors(ord, 1, path, end, visited, rest)
              IN  /\ glist' = [glist EXCEPT ![vertex] = ord]
                  /\ expanded' = [expanded EXCEPT ![vertex] = @ + 1]
                  /\ visited' = f.visited
                  /\ queue' = f.queue
                  /\ IF f.found
                       THEN /\ result' = [kind |-> "return", value |-> f.ret, arg |-> None]
                            /\ pc' = "fp_ret"
                       ELSE /\ result' = result
                            /\ pc' = "fp_loop"
  /\ UNCHANGED <<route_ids, all_stops, args, stops_map, graph, start, end, printed,
                 most, least>>

\* Line 231: the queue is empty and the target was not met.
FP_Exhaust ==
  /\ pc = "fp_loop"
  /\ queue = <<>>
  /\ LET x == Exhausted(args.path[1], args.path[2])
     IN  /\ result' = x.result
         /\ printed' = printed \o x.out
  /\ pc' = "fp_ret"
  /\ UNCHANGED <<route_ids, all_stops, args, stops_map, graph, glist, start, end,
                 visited, queue, most, least, expanded>>

----------------------------------------------------------------------------
\* main, lines 234-272.  args.id is the route name after line 243.

\* Lines 246-251: fetch and list the routes.
M_ListRoutes ==
  /\ pc = "main"
  /\ printed' = Append(printed, <<"routes", route_ids>>)
  /\ pc' = "stops"
  /\ UNCHANGED <<route_ids, all_stops, args, stops_map, graph, glist, start, end,
                 visited, queue, result, most, least, expanded>>

\* Lines 253-263: the stops of the named route; an unknown name ends main.
M_Stops ==
  /\ pc = "stops"
  /\ IF args.id = None
       THEN /\ printed' = printed
            /\ pc' = "stats"
     ELSE IF args.id \notin Range(route_ids)
       THEN /\ printed' = Append(printed, <<"Unknown Route NAME", args.id>>)
            /\ pc' = "done"                         \* return, line 257
     ELSE /\ printed' = Append(printed, <<"stops", args.id, all_stops[args.id]>>)
          /\ pc' = "stats"
  /\ UNCHANGED <<route_ids, all_stops, args, stops_map, graph, glist, start, end,
                 visited, queue, result, most, least, expanded>>

\* Lines 265-266.
M_Stats ==
  /\ pc = "stats"
  /\ IF args.stats
       THEN StatsEffect
       ELSE UNCHANGED <<most, least, stops_map, printed>>
  /\ pc' = "path"
  /\ UNCHANGED <<route_ids, all_stops, args, graph, glist, start, end, visited,
                 queue, result, expanded>>

\* Lines 268-270: call find_path when a path is asked for.
M_Path ==
  /\ pc = "path"
  /\ pc' = IF args.path # <<>> THEN "fp_build" ELSE "done"
  /\ UNCHANGED <<route_ids, all_stops, args, stops_map, graph, glist, start, end,
                 visited, queue, result, printed, most, least, expanded>>

\* Lines 271-272: print the path when find_path returned a non-empty list.
M_PrintPath ==
  /\ pc = "fp_ret"
  /\ printed' = IF result.kind = "return" /\ result.value # <<>>
                  THEN Append(printed, <<"path", args.path[1], args.path[2], result.value>>)
                  ELSE printed
  /\ pc' = "done"
  /\ UNCHANGED <<route_ids, all_stops, args, stops_map, graph, glist, start, end,
                 visited, queue, result, most, least, expanded>>

\* The path requests: two stop names (path.split("-"), line 269).
Requests == Names \X Names

\* The -s flag: absent, a route of the network, or a name no route has.
IdFlags == {None} \cup Routes \cup {MaxRoutes + 1}

InitMain ==
  /\ InitNetwork
  /\ \E i \in IdFlags, st \in BOOLEAN, rq \in {<<>>} \cup Requests :
       args = [id |-> i, stats |-> st, path |-> rq]
  /\ pc = "main"

NextMain ==
  \/ M_ListRoutes
  \/ M_Stops
  \/ M_Stats
  \/ M_Path
  \/ FP_Build
  \/ FP_Lookup
  \/ FP_Step
  \/ FP_Exhaust
  \/ M_PrintPath

SpecMain == InitMain /\ [][NextMain]_vars

----------------------------------------------------------------------------
\* One path request: find_path and the printing of its result (lines 270-272).

InitPath ==
  /\ InitNetwork
  /\ \E rq \in Requests : args = [id |-> None, stats |-> FALSE, path |-> rq]
  /\ pc = "fp_build"

NextPath == FP_Build \/ FP_Lookup \/ FP_Step \/ FP_Exhaust \/ M_PrintPath

SpecPath == InitPath /\ [][NextPath]_vars

----------------------------------------------------------------------------
\* What the properties speak about.

\* The routes of the network, and those with a stop of a given name.
TheRoutes == Range(route_ids)

RoutesWith(name) == {r \in TheRoutes : name \in Range(all_stops[r])}

\* The stop names that appear in some route's stop list.
NamesServed == {name \in Names : RoutesWith(name) # {}}

\* The line print_stats wrote under a tag.
Reported(tag) == printed[CHOOSE i \in DOMAIN printed : printed[i][1] = tag]

StatsDone == pc = "print_stats_ret"

\* The stop names print_stats listed as connecting routes.
Listed == {printed[i][2] : i \in {j \in DOMAIN printed : printed[j][1] = "connects"}}

\* The routes within k transfers of the routes in seen.
RECURSIVE Within(_, _, _)
Within(g, seen, k) ==
  IF k = 0 THEN seen
  ELSE Within(g, seen \cup UNION {g[x] : x \in seen}, k - 1)

Reach(g, a) == Within(g, {a}, Cardinality(DOMAIN g))

\* The least number of transfers from a to b, for b reachable from a.
Dist(g, a, b) == CHOOSE k \in 0..Cardinality(DOMAIN g) :
                   /\ b \in Within(g, {a}, k)
                   /\ \A j \in 0..(k - 1) : b \notin Within(g, {a}, j)

Built == pc \notin {"fp_build", "main", "stops", "stats", "path"}

Stop1 == args.path[1]

Stop2 == args.path[2]

BothKnown == Built /\ HasKey(stops_map, Stop1) /\ HasKey(stops_map, Stop2)

\* The resolved origin and target: the first route of each stop's list.
Origin == Get(stops_map, Stop1)[1]

Target == Get(stops_map, Stop2)[1]

\* find_path has returned from its search (the route lists differ).
Searched == pc \in {"fp_ret", "done"} /\ start # None

\* The iterations of the while loop so far.
RECURSIVE ExpandedUpTo(_)
ExpandedUpTo(n) == IF n = 0 THEN 0 ELSE expanded[n] + ExpandedUpTo(n - 1)

Iterations == ExpandedUpTo(MaxRoutes)

NotFoundLine == <<"Route not found from {} to {}", Stop1, Stop2>>

Unreachable ==
  /\ BothKnown
  /\ Get(stops_map, Stop1) # Get(stops_map, Stop2)
  /\ Target \notin Reach(graph, Origin)

----------------------------------------------------------------------------
\* The properties.

\* C1: a route sequence returned by the search has the minimum hop count: no
\* sequence of fewer transfers leads from the origin to the target in the
\* Route Adjacency Graph.  Stated for an origin and a target that differ.
C1_MinimumHops ==
  (Searched /\ result.kind = "return" /\ Origin # Target)
    => Len(result.value) - 1 <= Dist(graph, Origin, Target)

\* C2: a route sequence returned by the search starts at the origin, ends at
\* the target, and every two consecutive routes of it share a stop name.
C2_RealPath ==
  (Searched /\ result.kind = "return")
    => /\ result.value[1] = Origin
       /\ result.value[Len(result.value)] = Target
       /\ \A i \in 1..(Len(result.value) - 1) :
            \E name \in Names : {result.value[i], result.value[i + 1]} \subseteq RoutesWith(name)

\* C3: with an unknown start or end stop find_path fails with a LookupError
\* that names the stop, the side that was unresolved is identified, and no
\* path is returned or printed.
C3_UnknownStop ==
  (pc \in {"fp_ret", "raised", "done"} /\ ~BothKnown)
    => /\ result.kind = "raise"
       /\ result.arg = (IF ~HasKey(stops_map, Stop1) THEN Stop1 ELSE Stop2)
       /\ \E i \in DOMAIN printed :
            printed[i][1] = (IF ~HasKey(stops_map, Stop1) THEN "Unknown start location"
                             ELSE "Unknown end location")
       /\ result.value = <<>>
       /\ \A i \in DOMAIN printed : printed[i][1] # "path"

C5_StatsAndPathStillRun ==
  (pc = "done" /\ args.id # None /\ args.id \notin TheRoutes)
    => /\ args.stats => \E i \in DOMAIN printed : printed[i][1] = "most"
       /\ args.path # <<>> => result # NoResult

\* C6: print_stats lists a stop name exactly when two or more different
\* routes have a stop of that name.
C6_TransferStops ==
  StatsDone => Listed = {name \in Names : Cardinality(RoutesWith(name)) >= 2}

\* C7: the keys of the Stop-Route Index are exactly the stop names that appear
\* in some route's stop list, each once, and the entry of a name holds exactly
\* the routes that have a stop of that name.
C7_IndexComplete ==
  StatsDone
    => /\ Keys(stops_map) = NamesServed
       /\ \A i, j \in DOMAIN stops_map : stops_map[i].key = stops_map[j].key => i = j
       /\ \A i \in DOMAIN stops_map :
            Range(stops_map[i].val) = RoutesWith(stops_map[i].key)

C7_Witness ==
  /\ StatsDone
  /\ \E r \in TheRoutes : all_stops[r] = <<>>
  /\ \E name \in Names : Cardinality(RoutesWith(name)) = 2
  /\ \E name \in Names : Cardinality(RoutesWith(name)) = 1

\* C8: for a non-empty route set, the route reported with the most stops has
\* at least as many stops as every route, the one reported with the fewest has
\* at most as many, and each is the first route in processing order that has
\* its count.
C8_MostLeast ==
  (StatsDone /\ route_ids # <<>>)
    => LET m == Reported("most")
           l == Reported("least")
       IN  /\ m[2] \in TheRoutes /\ m[3] = Len(all_stops[m[2]])
           /\ l[2] \in TheRoutes /\ l[3] = Len(all_stops[l[2]])
           /\ \A r \in TheRoutes : Len(all_stops[r]) <= m[3] /\ l[3] <= Len(all_stops[r])
           /\ \A i \in DOMAIN route_ids :
                /\ Len(all_stops[route_ids[i]]) = m[3]
                     => \E j \in 1..i : route_ids[j] = m[2]
                /\ Len(all_stops[route_ids[i]]) = l[3]
                     => \E j \in 1..i : route_ids[j] = l[2]

C8_Witness ==
  /\ StatsDone
  /\ \E a, b, c \in TheRoutes :
       /\ a # b
       /\ Len(all_stops[a]) = Len(all_stops[b])
       /\ Len(all_stops[a]) > Len(all_stops[c])
       /\ Reported("most")[3] = Len(all_stops[a])

\* C9: the Route Adjacency Graph is symmetric: if B is in adjacency(A) and
\* B differs from A, then A is in adjacency(B).
C9_Symmetric ==
  Built => \A a \in DOMAIN graph : \A b \in graph[a] :
             a # b => b \in DOMAIN graph /\ a \in graph[b]

C9_Witness ==
  /\ Built
  /\ \E a \in DOMAIN graph : \E b \in graph[a] : a # b
  /\ \E a \in DOMAIN graph : \E b \in DOMAIN graph : b \notin graph[a]

\* C10: during one search no route is taken off the frontier and expanded
\* more than once.
C10_NoRevisit == \A r \in Routes : expanded[r] <= 1

====
